---- MODULE Spec2Model ----
(***************************************************************************)
(* Model of the Leica GeoCOM protocol codec of ulyxes                      *)
(* (pyapi/leicameasureunit.py): the command registry, the request builders *)
(* MeasureMsg / ClearDistanceMsg / GetMeasureMsg / GetPcMsg / CoordsMsg,   *)
(* and the response parser LeicaMeasureUnit.Result.                        *)
(*                                                                         *)
(* Texts are sequences of one-character strings, so that re.split, int(),  *)
(* float() and str.format are computed character by character.  A float is *)
(* held as its value in units of 10^-6 (inputs carry at most six           *)
(* decimals).                                                              *)
(***************************************************************************)
EXTENDS Integers, Sequences, FiniteSets, TLC

VARIABLES msgs, anss, msgList, ansList, i, res, pc, exc, built

vars == <<msgs, anss, msgList, ansList, i, res, pc, exc, built>>

\* Largest number of '|'-separated items in a request batch or an answer batch.
MaxBatch == 2

-----------------------------------------------------------------------------
(* Characters and numbers                                                   *)

Digits == <<"0", "1", "2", "3", "4", "5", "6", "7", "8", "9">>

DigitSet == {Digits[d] : d \in 1..10}

DigitVal(c) == (CHOOSE d \in 1..10 : Digits[d] = c) - 1

RECURSIVE NatToStr(_)
NatToStr(n) ==
    IF n < 10 THEN <<Digits[n + 1]>>
    ELSE NatToStr(n \div 10) \o <<Digits[(n % 10) + 1]>>

\* '{:d}' applied to an int
IntToStr(n) == IF n < 0 THEN <<"-">> \o NatToStr(0 - n) ELSE NatToStr(n)

RECURSIVE ParseNat(_)
ParseNat(s) ==
    IF s = <<>> THEN 0
    ELSE ParseNat(SubSeq(s, 1, Len(s) - 1)) * 10 + DigitVal(s[Len(s)])

Unsigned(s) == IF s # <<>> /\ s[1] \in {"+", "-"} THEN Tail(s) ELSE s

Sign(s) == IF s # <<>> /\ s[1] = "-" THEN 0 - 1 ELSE 1

\* int(s) succeeds: optional sign, then one or more digits
IsIntText(s) ==
    /\ Unsigned(s) # <<>>
    /\ \A k \in 1..Len(Unsigned(s)) : Unsigned(s)[k] \in DigitSet

ParseInt(s) == Sign(s) * ParseNat(Unsigned(s))

DotAt(s) == {k \in 1..Len(s) : s[k] = "."}

\* float(s) succeeds: optional sign, digits with at most one '.', at least one digit
IsFloatText(s) ==
    LET u == Unsigned(s) IN
    /\ Cardinality(DotAt(u)) <= 1
    /\ \A k \in 1..Len(u) : u[k] \in DigitSet \cup {"."}
    /\ \E k \in 1..Len(u) : u[k] \in DigitSet

\* the first six decimals of a fraction text, as a number of 10^-6 units
RECURSIVE FracMicro(_, _)
FracMicro(f, places) ==
    IF places = 0 THEN 0
    ELSE (IF f = <<>> THEN 0 ELSE DigitVal(f[1])) * (10 ^ (places - 1))
         + FracMicro(IF f = <<>> THEN f ELSE Tail(f), places - 1)

ParseFloat(s) ==
    LET u == Unsigned(s)
        d == IF DotAt(u) = {} THEN Len(u) + 1 ELSE CHOOSE k \in DotAt(u) : TRUE
    IN  Sign(s) * (ParseNat(SubSeq(u, 1, d - 1)) * 1000000
                   + FracMicro(SubSeq(u, d + 1, Len(u)), 6))

\* re.split on a set of one-character separators
RECURSIVE Split(_, _)
Split(s, seps) ==
    IF \A k \in 1..Len(s) : s[k] \notin seps THEN <<s>>
    ELSE LET p == CHOOSE k \in 1..Len(s) :
                      s[k] \in seps /\ \A j \in 1..(k - 1) : s[j] \notin seps
         IN  <<SubSeq(s, 1, p - 1)>> \o Split(SubSeq(s, p + 1, Len(s)), seps)

\* Python list indexing, 0-based
HasItem(list, k) == k < Len(list)

Item(list, k) == list[k + 1]

-----------------------------------------------------------------------------
(* Values and dictionaries                                                  *)

IntVal(n) == [kind |-> "int", num |-> n, txt |-> <<>>]

FloatVal(x) == [kind |-> "float", num |-> x, txt |-> <<>>]

Angle(x) == [kind |-> "Angle", num |-> x, txt |-> <<>>]

StrVal(s) == [kind |-> "str", num |-> 0, txt |-> s]

EmptyDict == [k \in {} |-> IntVal(0)]

DictSet_keepOld(d, k, v) ==
    [x \in DOMAIN d \cup {k} |-> IF x \in DOMAIN d THEN d[x] ELSE v]

\* d[k] = v
DictSet(d, k, v) == [x \in DOMAIN d \cup {k} |-> IF x = k THEN v ELSE d[x]]

-----------------------------------------------------------------------------
(* Command registry                                                         *)

codes ==
    [SETPC |-> 2024, GETPC |-> 2023, SETATR |-> 9018, GETATR |-> 9019,
     SETLOCK |-> 9020, GETLOCK |-> 9021, LOCKIN |-> 9013,
     SETATMCORR |-> 2028, GETATMCORR |-> 2029, SETREFCORR |-> 2030,
     GETREFCORR |-> 2031, GETSTN |-> 2009, SETSTN |-> 2010,
     SETEDMMODE |-> 2020, GETEDMMODE |-> 2021, SETORI |-> 2113,
     MOVE |-> 9027, MEASURE |-> 2008, GETMEASURE |-> 2108,
     MEASUREANGDIST |-> 17017, COORDS |-> 2082, GETANGLES |-> 2003,
     CHANGEFACE |-> 9028, CLEARDIST |-> 2082, SETSEARCHAREA |-> 9043,
     POWERSEARCH |-> 9052, SEARCHNEXT |-> 9051, SETREDLASER |-> 1004]

edmProg == [STOP |-> 0, DEFAULT |-> 1, TRACKING |-> 2, CLEAR |-> 3]

-----------------------------------------------------------------------------
(* Request builders                                                         *)

\* a Python argument: an int, or an object that is no number (such as self)
PyInt(n) == [isInt |-> TRUE, n |-> n]

PyObject == [isInt |-> FALSE, n |-> 0]

Prefix == <<"%", "R", "1", "Q", ",">>

\* '%R1Q,{0:d}:{1:d},{2:d}'.format(code, a, b): format code 'd' raises for an
\* argument that is no number (ValueError under Python 2, which the package is
\* written for; Python 3 raises TypeError at the same place)
Format2(code, a, b) ==
    IF a.isInt /\ b.isInt
    THEN [exc |-> "none",
          text |-> Prefix \o IntToStr(code) \o <<":">> \o IntToStr(a.n)
                   \o <<",">> \o IntToStr(b.n)]
    ELSE [exc |-> "ValueError", text |-> <<>>]

MeasureMsg(prg, incl) == Format2(codes.MEASURE, prg, incl)

GetMeasureMsg(wait, incl) == Format2(codes.GETMEASURE, wait, incl)

CoordsMsg(wait, incl) == Format2(codes.COORDS, wait, incl)

GetPcMsg == [exc |-> "none", text |-> Prefix \o IntToStr(codes.GETPC) \o <<":">>]

\* return self.MeasureMsg(self, 3): the bound method already receives self,
\* so prg = self and incl = 3
ClearDistanceMsg == MeasureMsg(PyObject, PyInt(3))

-----------------------------------------------------------------------------
(* Response parser                                                          *)

FieldSeps == {":", ","}

BatchSeps == {"|"}

\* int(msgBufflist[1]): the exception it raises, or "none"
CommandIDExc(msgBufflist) ==
    IF ~HasItem(msgBufflist, 1) THEN "IndexError"
    ELSE IF ~IsIntText(Item(msgBufflist, 1)) THEN "ValueError"
    ELSE "none"

CommandID(msgBufflist) == ParseInt(Item(msgBufflist, 1))

ErrCodeOf_zeroDefault(ansBufflist) ==
    IF HasItem(ansBufflist, 3) /\ IsIntText(Item(ansBufflist, 3))
    THEN ParseInt(Item(ansBufflist, 3))
    ELSE 0

\* try: errCode = int(ansBufflist[3]) / except: errCode = -1
ErrCodeOf(ansBufflist) ==
    IF HasItem(ansBufflist, 3) /\ IsIntText(Item(ansBufflist, 3))
    THEN ParseInt(Item(ansBufflist, 3))
    ELSE 0 - 1

IsTolerated_none(errCode) == FALSE

IsTolerated_any(errCode) == errCode > 0

\* errCode in (1283, 1284)
IsTolerated(errCode) == errCode \in {1283, 1284}

StopsParse_never(errCode) == FALSE

\* if errCode != 0: ... if not errCode in (1283, 1284): return res
StopsParse(errCode) == errCode # 0 /\ ~IsTolerated(errCode)

MeasureFields_shifted ==
    <<<<"hz", 5, "Angle">>, <<"v", 6, "Angle">>, <<"distance", 7, "float">>>>

\* the GETMEASURE branch: key, index in ansBufflist, conversion
MeasureFields ==
    <<<<"hz", 4, "Angle">>, <<"v", 5, "Angle">>, <<"distance", 6, "float">>>>

Branch_measureKey(commandID) ==
    IF commandID = codes.MEASURE THEN "GETMEASURE" ELSE "none"

\* the if/elif chain on commandID: the first branch that matches
Branch(commandID) ==
    IF commandID = codes.GETMEASURE THEN "GETMEASURE"
    ELSE IF commandID = codes.MEASUREANGDIST THEN "MEASUREANGDIST"
    ELSE IF commandID = codes.GETPC THEN "GETPC"
    ELSE IF commandID = codes.GETATR THEN "GETATR"
    ELSE IF commandID = codes.GETLOCK THEN "GETLOCK"
    ELSE IF commandID = codes.GETATMCORR THEN "GETATMCORR"
    ELSE IF commandID = codes.GETREFCORR THEN "GETREFCORR"
    ELSE IF commandID = codes.GETSTN THEN "GETSTN"
    ELSE IF commandID = codes.GETEDMMODE THEN "GETEDMMODE"
    ELSE IF commandID = codes.COORDS THEN "COORDS"
    ELSE IF commandID = codes.GETANGLES THEN "GETANGLES"
    ELSE IF commandID = codes.SETSEARCHAREA THEN "SETSEARCHAREA"
    ELSE IF commandID = codes.POWERSEARCH THEN "POWERSEARCH"
    ELSE "none"

\* the assignments of a branch, in order: key, index in ansBufflist, conversion
Fields(branch) ==
    CASE branch = "GETMEASURE" -> MeasureFields
      [] branch = "MEASUREANGDIST" ->
            <<<<"hz", 4, "Angle">>, <<"v", 5, "Angle">>, <<"distance", 6, "float">>>>
      [] branch = "GETPC" -> <<<<"pc", 4, "int">>>>
      [] branch = "GETATR" -> <<<<"atrStatus", 4, "int">>>>
      [] branch = "GETLOCK" -> <<<<"lockStat", 4, "int">>>>
      [] branch = "GETATMCORR" ->
            <<<<"lambda", 4, "str">>, <<"pressure", 5, "float">>,
              <<"dryTemp", 6, "float">>, <<"wetTemp", 7, "float">>>>
      [] branch = "GETREFCORR" ->
            <<<<"status", 4, "str">>, <<"earthRadius", 5, "float">>,
              <<"refractiveScale", 6, "float">>>>
      [] branch = "GETSTN" ->
            <<<<"easting", 4, "float">>, <<"northing", 5, "float">>,
              <<"elevation", 6, "float">>>>
      [] branch = "GETEDMMODE" -> <<<<"edmMode", 4, "int">>>>
      [] branch = "COORDS" ->
            <<<<"east", 4, "float">>, <<"north", 5, "float">>, <<"elev", 6, "float">>>>
      [] branch = "GETANGLES" ->
            <<<<"hz", 4, "Angle">>, <<"v", 5, "Angle">>,
              <<"crossincline", 8, "Angle">>, <<"lengthincline", 9, "Angle">>>>
      [] OTHER -> <<>>

\* the exception one assignment res[key] = conv(ansBufflist[idx]) raises, or "none"
FieldExc(f, ansBufflist) ==
    IF ~HasItem(ansBufflist, f[2]) THEN "IndexError"
    ELSE IF f[3] = "int" /\ ~IsIntText(Item(ansBufflist, f[2])) THEN "ValueError"
    ELSE IF f[3] \in {"float", "Angle"} /\ ~IsFloatText(Item(ansBufflist, f[2]))
         THEN "ValueError"
    ELSE "none"

\* the value one assignment stores
FieldValue(f, ansBufflist) ==
    CASE f[3] = "int" -> IntVal(ParseInt(Item(ansBufflist, f[2])))
      [] f[3] = "float" -> FloatVal(ParseFloat(Item(ansBufflist, f[2])))
      [] f[3] = "Angle" -> Angle(ParseFloat(Item(ansBufflist, f[2])))
      [] OTHER -> StrVal(Item(ansBufflist, f[2]))

\* the exception the assignments of a branch raise (that of the first one that fails)
ExtractExc(fields, ansBufflist) ==
    LET bad == {k \in 1..Len(fields) : FieldExc(fields[k], ansBufflist) # "none"}
    IN  IF bad = {} THEN "none"
        ELSE FieldExc(fields[CHOOSE k \in bad : \A j \in bad : k <= j], ansBufflist)

\* the assignments of a branch, applied to res in order
RECURSIVE Store(_, _, _)
Store(d, fields, ansBufflist) ==
    IF fields = <<>> THEN d
    ELSE Store(DictSet(d, fields[1][1], FieldValue(fields[1], ansBufflist)),
               Tail(fields), ansBufflist)

\* zip(msgList, ansList) stops at the shorter list
NPairs == IF Len(msgList) <= Len(ansList) THEN Len(msgList) ELSE Len(ansList)

-----------------------------------------------------------------------------
(* Inputs                                                                   *)

RECURSIVE Join(_, _)
Join(items, sep) ==
    IF Len(items) = 0 THEN <<>>
    ELSE IF Len(items) = 1 THEN items[1]
    ELSE items[1] \o <<sep>> \o Join(Tail(items), sep)

\* '%R1Q,2108:12000,0'
ReqExample == GetMeasureMsg(PyInt(12000), PyInt(0)).text

\* the request texts of a batch: a GETMEASURE request, a MEASURE request (no
\* branch of Result extracts anything for it), a GETPC request, a COORDS
\* request, and the empty text (what a batch ending in '|' splits into)
Requests ==
    {ReqExample, MeasureMsg(PyInt(1), PyInt(0)).text, GetPcMsg.text,
     CoordsMsg(PyInt(12000), PyInt(0)).text, <<>>}

\* '%R1Q,2108:0,0,0,1.570796,0.785398,150.25'
AnsExample ==
    <<"%", "R", "1", "Q", ",", "2", "1", "0", "8", ":", "0", ",", "0", ",", "0", ",",
      "1", ".", "5", "7", "0", "7", "9", "6", ",",
      "0", ".", "7", "8", "5", "3", "9", "8", ",",
      "1", "5", "0", ".", "2", "5">>

ReplyHead == <<"%", "R", "1", "P", ",", "0", ",", "0">>

\* ',3.141593,1.047198,42.5'
Payload ==
    <<",", "3", ".", "1", "4", "1", "5", "9", "3", ",",
      "1", ".", "0", "4", "7", "1", "9", "8", ",", "4", "2", ".", "5">>

\* '%R1P,0,0:<errText>,3.141593,1.047198,42.5'
Reply(errText) == ReplyHead \o <<":">> \o errText \o Payload

\* the answer texts of a batch: the spec's example, success, a tolerated
\* warning (1283), an instrument error, an error code that is no integer, an
\* answer of three fields, and two answers that carry one integer, one with
\* error code 0 and one with the tolerated warning 1284
Answers ==
    {AnsExample,
     Reply(<<"0">>),
     Reply(<<"1", "2", "8", "3">>),
     Reply(<<"9", "9", "9", "9">>),
     Reply(<<"x">>),
     ReplyHead,
     ReplyHead \o <<":", "0", ",", "1", "2">>,
     ReplyHead \o <<":", "1", "2", "8", "4", ",", "1", "2">>}

\* the batches of 1..n texts joined with '|'
Batches(texts, n) ==
    {Join(t, "|") : t \in UNION {[1..k -> texts] : k \in 1..n}}

NoBuilt == [fn |-> "none", exc |-> "none", text |-> <<>>]

-----------------------------------------------------------------------------
(* State machine                                                            *)

Init ==
    /\ msgs = <<>>
    /\ anss = <<>>
    /\ msgList = <<>>
    /\ ansList = <<>>
    /\ i = 0
    /\ res = EmptyDict
    /\ pc = "idle"
    /\ exc = "none"
    /\ built = NoBuilt

\* Result(msgs, anss) is entered: both batches are split on '|', res = {}
ResultCall ==
    /\ pc = "idle"
    /\ built = NoBuilt
    /\ \E m \in Batches(Requests, MaxBatch), a \in Batches(Answers, MaxBatch) :
          /\ msgs' = m
          /\ anss' = a
          /\ msgList' = Split(m, BatchSeps)
          /\ ansList' = Split(a, BatchSeps)
    /\ i' = 0
    /\ res' = EmptyDict
    /\ pc' = "loop"
    /\ UNCHANGED <<exc, built>>

\* one iteration of the loop over zip(msgList, ansList)
ResultPair ==
    /\ pc = "loop"
    /\ i < NPairs
    /\ i' = i + 1
    /\ LET msgBufflist == Split(msgList[i + 1], FieldSeps)
           ansBufflist == Split(ansList[i + 1], FieldSeps)
           errCode == ErrCodeOf(ansBufflist)
           res1 == IF errCode # 0 THEN DictSet(res, "errCode", IntVal(errCode))
                   ELSE res
           fields == Fields(Branch(CommandID(msgBufflist)))
       IN  IF CommandIDExc(msgBufflist) # "none"
           THEN /\ pc' = "raised"
                /\ exc' = CommandIDExc(msgBufflist)
                /\ res' = res
           ELSE IF StopsParse(errCode)
           THEN /\ pc' = "returned"
                /\ exc' = exc
                /\ res' = res1
           ELSE IF ExtractExc(fields, ansBufflist) # "none"
           THEN /\ pc' = "raised"
                /\ exc' = ExtractExc(fields, ansBufflist)
                /\ res' = res
           ELSE /\ pc' = "loop"
                /\ exc' = exc
                /\ res' = Store(res1, fields, ansBufflist)
    /\ UNCHANGED <<msgs, anss, msgList, ansList, built>>

\* the loop is exhausted: return res
ResultReturn ==
    /\ pc = "loop"
    /\ i = NPairs
    /\ pc' = "returned"
    /\ UNCHANGED <<msgs, anss, msgList, ansList, i, res, exc, built>>

\* MeasureMsg(prg, incl) is called
MeasureMsgCall ==
    /\ pc = "idle"
    /\ built = NoBuilt
    /\ \E prg \in DOMAIN edmProg, incl \in 0..2 :
          LET r == MeasureMsg(PyInt(edmProg[prg]), PyInt(incl))
          IN  built' = [fn |-> "MeasureMsg", exc |-> r.exc, text |-> r.text]
    /\ UNCHANGED <<msgs, anss, msgList, ansList, i, res, pc, exc>>

\* ClearDistanceMsg() is called
ClearDistanceMsgCall ==
    /\ pc = "idle"
    /\ built = NoBuilt
    /\ built' = [fn |-> "ClearDistanceMsg", exc |-> ClearDistanceMsg.exc,
                 text |-> ClearDistanceMsg.text]
    /\ UNCHANGED <<msgs, anss, msgList, ansList, i, res, pc, exc>>

Next ==
    \/ ResultCall
    \/ ResultPair
    \/ ResultReturn
    \/ MeasureMsgCall
    \/ ClearDistanceMsgCall

Spec == Init /\ [][Next]_vars

-----------------------------------------------------------------------------
(* What the claims are stated in                                            *)

MsgBuf(j) == Split(msgList[j], FieldSeps)

AnsBuf(j) == Split(ansList[j], FieldSeps)

\* the request of pair j carries an integer opcode in its second field
WellFormedReq(j) == HasItem(MsgBuf(j), 1) /\ IsIntText(Item(MsgBuf(j), 1))

\* the error code of the answer of pair j
Code(j) == ErrCodeOf(AnsBuf(j))

\* pair i is the pair parsed last
Parsed == pc # "idle" /\ i >= 1

WarningCodes == {1283, 1284}

\* the opcodes for which Result extracts payload fields
ExtractingOpcodes ==
    {codes[n] : n \in {"GETMEASURE", "MEASUREANGDIST", "GETPC", "GETATR", "GETLOCK",
                       "GETATMCORR", "GETREFCORR", "GETSTN", "GETEDMMODE", "COORDS",
                       "GETANGLES"}}

\* the payload fields of a record: all but errCode
PayloadOf(d) == [k \in DOMAIN d \ {"errCode"} |-> d[k]]

\* the record that pair j alone decodes to
PairRecord(j) ==
    LET base == IF Code(j) # 0 THEN DictSet(EmptyDict, "errCode", IntVal(Code(j)))
                ELSE EmptyDict
    IN  IF StopsParse(Code(j)) THEN base
        ELSE Store(base, Fields(Branch(CommandID(MsgBuf(j)))), AnsBuf(j))

\* the records of the pairs 1..n merged in batch order, later pairs winning: each
\* key holds the value of the last of the pairs 1..n that decodes it
RECURSIVE Merged(_)
Merged(n) ==
    IF n = 0 THEN EmptyDict
    ELSE LET before == Merged(n - 1)
             last == PairRecord(n)
         IN  [k \in DOMAIN before \cup DOMAIN last |->
                 IF k \in DOMAIN last THEN last[k] ELSE before[k]]

\* the pairs of the batch whose error code is neither 0 nor a tolerated warning
Failing == {j \in 1..NPairs : Code(j) # 0 /\ Code(j) \notin WarningCodes}

FirstFailing == CHOOSE j \in Failing : \A h \in Failing : j <= h

-----------------------------------------------------------------------------
(* Claims                                                                   *)

\* C1 (as stated): a call of Result whose request batch and answer batch split
\* into different numbers of items fails (with a FramingError) and returns no
\* record: in particular it never returns payload fields decoded from the pairs
\* that line up by position.
C1_MismatchIsFramingError ==
    Len(msgList) # Len(ansList) =>
        ~(pc = "returned" /\ DOMAIN res \ {"errCode"} # {})

\* C2 (as stated): a failing pair does not stop the parse: when Result returns,
\* every pair whose answer carries error code 0 and whose payload can be decoded
\* has its payload keys in the result.
C2_ErrorDoesNotStopParse ==
    pc = "returned" =>
        \A j \in 1..NPairs :
            (/\ WellFormedReq(j)
             /\ Code(j) = 0
             /\ ExtractExc(Fields(Branch(CommandID(MsgBuf(j)))), AnsBuf(j)) = "none")
            => \A k \in DOMAIN PairRecord(j) : k \in DOMAIN res

\* C2 (amended): the first failing pair stops the parse: Result returns right after
\* it with its error code in errCode, the payload of the pairs before it is in the
\* result, and no key of the result comes from a pair after it.
C2_ErrorStopsParse ==
    (pc = "returned" /\ Failing # {}) =>
        LET first == FirstFailing
            keysBefore == UNION {DOMAIN PairRecord(j) : j \in 1..(first - 1)}
        IN  /\ i = first
            /\ "errCode" \in DOMAIN res
            /\ res["errCode"] = IntVal(Code(first))
            /\ keysBefore \subseteq DOMAIN res
            /\ DOMAIN res \ {"errCode"} \subseteq keysBefore

C2_Witness ==
    /\ pc = "returned"
    /\ NPairs = 2
    /\ i = 1
    /\ Code(1) = 9999
    /\ msgList[2] = ReqExample
    /\ ansList[2] = Reply(<<"0">>)
    /\ DOMAIN res = {"errCode"}

\* C3 (as stated): one record per pair: when Result returns, every parsed pair
\* still has each field decoded from it, with the value decoded from it, in the
\* output.
C3_EveryPairKeepsItsFields ==
    pc = "returned" =>
        \A j \in 1..i : \A k \in DOMAIN PairRecord(j) :
            k \in DOMAIN res /\ res[k] = PairRecord(j)[k]

\* C3 (amended): Result returns one dictionary for the whole batch: the records of
\* the parsed pairs merged in batch order, each key holding the value of the last
\* parsed pair that decodes it.
C3_SingleMergedRecord == pc = "returned" => res = Merged(i)

C3_Witness ==
    /\ pc = "returned"
    /\ i = 2
    /\ msgList = <<ReqExample, ReqExample>>
    /\ ansList = <<AnsExample, Reply(<<"0">>)>>
    /\ res["hz"] = Angle(3141593)
    /\ PairRecord(1)["hz"] = Angle(0)

\* C4 (as stated): the example pair yields errCode 0, hz from the field 1.570796,
\* v from the field 0.785398 and distance from the field 150.25.
C4_ExampleAsStated ==
    (pc = "returned" /\ msgs = ReqExample /\ anss = AnsExample) =>
        /\ "errCode" \in DOMAIN res
        /\ res["errCode"] = IntVal(0)
        /\ res["hz"] = Angle(1570796)
        /\ res["v"] = Angle(785398)
        /\ res["distance"] = FloatVal(150250000)

\* C4 (amended): a single GETMEASURE pair whose answer has error code 0 yields
\* exactly hz, v and distance, decoded from the answer's fields 4, 5 and 6, and no
\* errCode; for the example pair hz is decoded from the field 0 (index 4), v from
\* 1.570796 and distance from 0.785398.
C4_GetMeasureRecord ==
    /\ (/\ pc = "returned"
        /\ msgs = ReqExample
        /\ Len(ansList) = 1
        /\ HasItem(AnsBuf(1), 3)
        /\ Item(AnsBuf(1), 3) = <<"0">>)
       => /\ DOMAIN res = {"hz", "v", "distance"}
          /\ res["hz"] = Angle(ParseFloat(Item(AnsBuf(1), 4)))
          /\ res["v"] = Angle(ParseFloat(Item(AnsBuf(1), 5)))
          /\ res["distance"] = FloatVal(ParseFloat(Item(AnsBuf(1), 6)))
    /\ (pc = "returned" /\ msgs = ReqExample /\ anss = AnsExample)
       => /\ res["hz"] = Angle(0)
          /\ res["v"] = Angle(1570796)
          /\ res["distance"] = FloatVal(785398)

C4_Witness ==
    /\ pc = "returned"
    /\ msgs = ReqExample
    /\ anss = AnsExample
    /\ DOMAIN res = {"hz", "v", "distance"}

\* the fields of the answer of pair j, with the error-code field replaced by '0'
ZeroTwin(j) == [AnsBuf(j) EXCEPT ![4] = <<"0">>]

\* the error-code field of the answer of pair j reads 1283 or 1284
HasWarning(j) ==
    /\ HasItem(AnsBuf(j), 3)
    /\ Item(AnsBuf(j), 3) \in {<<"1", "2", "8", "3">>, <<"1", "2", "8", "4">>}

\* C5: a pair whose request has an extracting opcode and whose answer carries a
\* tolerated warning stores errCode = the warning and exactly the payload fields,
\* with the values, that the same answer with error code 0 gives; it raises
\* exactly when that answer raises.
C5_ToleratedWarningPassThrough ==
    (Parsed /\ WellFormedReq(i) /\ HasWarning(i)
            /\ CommandID(MsgBuf(i)) \in ExtractingOpcodes) =>
        LET fields == Fields(Branch(CommandID(MsgBuf(i))))
        IN  IF ExtractExc(fields, ZeroTwin(i)) # "none"
            THEN pc = "raised" /\ exc = ExtractExc(fields, ZeroTwin(i))
            ELSE /\ pc # "raised"
                 /\ "errCode" \in DOMAIN res
                 /\ res["errCode"] = IntVal(ParseInt(Item(AnsBuf(i), 3)))
                 /\ res["errCode"].num \in WarningCodes
                 /\ \A n \in 1..Len(fields) :
                        /\ fields[n][1] \in DOMAIN res
                        /\ res[fields[n][1]] = FieldValue(fields[n], ZeroTwin(i))
                 /\ i = 1 => DOMAIN res \ {"errCode"}
                                = {fields[n][1] : n \in 1..Len(fields)}

C5_Witness ==
    /\ pc = "loop"
    /\ i = 1
    /\ msgList[1] = ReqExample
    /\ ansList[1] = Reply(<<"1", "2", "8", "3">>)
    /\ DOMAIN res = {"errCode", "hz", "v", "distance"}
    /\ res["errCode"] = IntVal(1283)
    /\ res["distance"] = FloatVal(42500000)

\* pair i, parsed last, has a well-formed request and an error code that is
\* neither 0 nor a tolerated warning
LastPairFails == Parsed /\ WellFormedReq(i) /\ Code(i) # 0 /\ Code(i) \notin WarningCodes

\* C6 (as stated): such a pair yields a record that holds errCode and nothing
\* else, whatever was parsed before it.
C6_OnlyErrCode ==
    (pc = "returned" /\ LastPairFails) =>
        DOMAIN res = {"errCode"} /\ res["errCode"] = IntVal(Code(i))

\* C6 (amended): such a pair ends the call with errCode = its code and adds no
\* payload field: the payload of the result is that of the pairs parsed before
\* it, so the result holds errCode alone when the pair is the first of the batch.
C6_ErrCodeAndEarlierPayload ==
    LastPairFails =>
        /\ pc = "returned"
        /\ "errCode" \in DOMAIN res
        /\ res["errCode"] = IntVal(Code(i))
        /\ PayloadOf(res) = PayloadOf(Merged(i - 1))
        /\ i = 1 => DOMAIN res = {"errCode"}

C6_Witness ==
    /\ pc = "returned"
    /\ i = 2
    /\ msgList = <<ReqExample, ReqExample>>
    /\ Code(1) = 0
    /\ Code(2) = 9999
    /\ DOMAIN res = {"errCode", "hz", "v", "distance"}

\* the answer of pair j has fewer than four fields, or its fourth field is no integer
InvalidAnswer(j) == ~HasItem(AnsBuf(j), 3) \/ ~IsIntText(Item(AnsBuf(j), 3))

\* C7: a pair with a well-formed request and such an answer does not raise: the
\* call returns with errCode = -1 and no payload field of that answer.
C7_InvalidAnswerIsMinusOne ==
    (Parsed /\ WellFormedReq(i) /\ InvalidAnswer(i)) =>
        /\ pc = "returned"
        /\ "errCode" \in DOMAIN res
        /\ res["errCode"] = IntVal(0 - 1)
        /\ PayloadOf(res) = PayloadOf(Merged(i - 1))
        /\ i = 1 => DOMAIN res = {"errCode"}

C7_Witness ==
    /\ pc = "returned"
    /\ i = 2
    /\ msgList = <<ReqExample, ReqExample>>
    /\ ansList = <<Reply(<<"0">>), ReplyHead>>
    /\ ~HasItem(AnsBuf(2), 3)
    /\ res["errCode"] = IntVal(0 - 1)
    /\ "hz" \in DOMAIN res

\* C8 (as stated): ClearDistanceMsg() does not fail and returns the text of
\* MeasureMsg(3, 0), '%R1Q,2008:3,0'.
C8_ClearDistanceDelegates ==
    built.fn = "ClearDistanceMsg" =>
        /\ built.exc = "none"
        /\ built.text = MeasureMsg(PyInt(edmProg.CLEAR), PyInt(0)).text
        /\ built.text = <<"%", "R", "1", "Q", ",", "2", "0", "0", "8", ":", "3", ",", "0">>

\* C9 (as stated): two distinct command names have distinct opcodes, so the opcode
\* of every request of a batch being parsed names exactly one command.
C9_OpcodesOneToOne ==
    /\ \A n1, n2 \in DOMAIN codes : codes[n1] = codes[n2] => n1 = n2
    /\ pc # "idle" =>
          \A j \in 1..Len(msgList) :
              WellFormedReq(j) =>
                  Cardinality({n \in DOMAIN codes : codes[n] = CommandID(MsgBuf(j))}) <= 1

\* C10: a pair whose request opcode has no extracting branch and whose answer has
\* error code 0 or a tolerated warning does not raise, adds no payload field, and
\* does not end the call: Result returns only once every pair is consumed.
C10_UnknownOpcodeIsSilent ==
    (/\ Parsed
     /\ WellFormedReq(i)
     /\ CommandID(MsgBuf(i)) \notin ExtractingOpcodes
     /\ HasItem(AnsBuf(i), 3)
     /\ Item(AnsBuf(i), 3) \in {<<"0">>, <<"1", "2", "8", "3">>, <<"1", "2", "8", "4">>})
    => /\ pc \in {"loop", "returned"}
       /\ pc = "returned" => i = NPairs
       /\ PayloadOf(res) = PayloadOf(Merged(i - 1))
       /\ i = 1 => DOMAIN res \subseteq {"errCode"}

C10_Witness ==
    /\ pc = "loop"
    /\ i = 1
    /\ NPairs = 2
    /\ msgList[1] = MeasureMsg(PyInt(1), PyInt(0)).text
    /\ ansList[1] = AnsExample
    /\ msgList[2] = ReqExample
    /\ res = EmptyDict

====
